---- MODULE Spec2Model ----
(***************************************************************************)
(* The CDR report lifecycle of app/webex_cdr_processor.py:                 *)
(* CDRReportProcessor.run_report and the methods it calls, against the     *)
(* remote report store reached through wxcadm and MyWebex.delete_report.   *)
(* One action per external call or branch of the run.                      *)
(***************************************************************************)
EXTENDS Integers, Sequences, FiniteSets, TLC

\* ------------------------------------------------------------ constants
\* webex_cdr_processor.py:207 and :232, the platform ceiling
Ceiling == 50
\* webex_cdr_processor.py:69, timeout = 60 * 30
Timeout == 1800
\* webex_cdr_processor.py:78, time.sleep(30)
SleepInterval == 30

\* ------------------------------------------------------------ bounds
\* number of sequential runs of run_report
MaxRuns == 2
\* number of data rows a report carries
MaxRows == 2
\* stored reports whose deletion the platform may refuse or whose call may
\* break are those with the MaxFlaky lowest ids, and the ones this program
\* created
MaxFlaky == 2

\* ids the platform gives to reports created during the runs start here
FirstNewId == Ceiling + 1
\* the stored-report counts a sequence of runs starts from
InitCounts == {0, Ceiling - 1, Ceiling}
\* what the operator may type at the second prompt: an unknown id, a flaky
\* stored id, a stored id whose deletion works
InputIds == {0, 1, Ceiling}
\* what the operator may type at the first prompt ("x": anything else)
Options == {"1", "2", "3", "x"}
\* NUMBER_OF_DAYS_CDR_REPORT is None (config.py 43: Optional[int])
NoDays == -1
\* the arguments a direct caller may hand to fetch_cdr_data(num_days)
DayArgs == {NoDays, 0, 1, 31, 32}
\* config.py 87-101: None and 0 pass, anything else must lie in 1..31
ValidDays(v) == v = NoDays \/ v = 0 \/ (1 <= v /\ v <= 31)
\* config.py 55-68: checked only when both dates are set (0: not set; a date
\* is the number of its day)
ValidDates(s, e) == (s = 0 \/ e = 0) \/ (e >= s /\ e - s <= 30)
\* the contents of the .env file tried: NUMBER_OF_DAYS_CDR_REPORT,
\* START_DATE, END_DATE
CandidateConfigs ==
    { [days |-> 7,      start |-> 0, end |-> 0],
      [days |-> 7,      start |-> 1, end |-> 8],
      [days |-> 0,      start |-> 1, end |-> 8],
      [days |-> NoDays, start |-> 1, end |-> 8],
      [days |-> NoDays, start |-> 1, end |-> 0],
      [days |-> NoDays, start |-> 0, end |-> 0],
      [days |-> 32,     start |-> 0, end |-> 0],
      [days |-> NoDays, start |-> 8, end |-> 1],
      [days |-> NoDays, start |-> 1, end |-> 40] }
\* the configurations that load: Config() raises on the others and the
\* application does not start
Configs == {c \in CandidateConfigs : ValidDays(c.days) /\ ValidDates(c.start, c.end)}
\* a data row as process_call_record sees it: "ok" is ingested; "tzmix" has
\* an offset-aware Answer time and a naive Start time (TypeError at line 173);
\* "short" has fewer fields than the header, so csv.DictReader leaves None
\* in the missing ones (AttributeError at line 154); "long" has more fields
\* than the header, csv.DictReader keeps the extra ones under the key None
\* and the row is ingested like any other
RowKinds == {"ok", "tzmix", "short", "long"}

RECURSIVE SeqsUpTo(_, _)
SeqsUpTo(S, n) ==
    IF n = 0 THEN {<<>>}
    ELSE LET shorter == SeqsUpTo(S, n - 1)
         IN  shorter \cup {Append(s, x) : s \in {t \in shorter : Len(t) = n - 1}, x \in S}

RECURSIVE SortedSeq(_)
SortedSeq(S) ==
    IF S = {} THEN <<>>
    ELSE LET m == CHOOSE x \in S : \A y \in S : x <= y
         IN  <<m>> \o SortedSeq(S \ {m})

\* ------------------------------------------------------------ the rows
\* number of rows handed to process_all_cdr_records
MaxSeq == 2

\* what item.get(key, default) finds under a key: nothing, None (what
\* csv.DictReader leaves in the missing fields of a short row), or a string,
\* kept as the sequence of its characters
Absent == [kind |-> "absent", chars |-> <<>>]
None == [kind |-> "none", chars |-> <<>>]
Str(s) == [kind |-> "str", chars |-> s]

\* dict.get
Get(f, default) == IF f.kind = "absent" THEN default ELSE f

\* the characters 0..9, in order
DecimalDigits == <<"0", "1", "2", "3", "4", "5", "6", "7", "8", "9">>
IsDecimal(c) == \E i \in 1..Len(DecimalDigits) : DecimalDigits[i] = c
DigitValue(c) == (CHOOSE i \in 1..Len(DecimalDigits) : DecimalDigits[i] = c) - 1
\* "sup2" stands for the one character U+00B2 (superscript two): str.isdigit
\* is true of it, int() raises ValueError on it
OtherDigits == {"sup2"}

\* str.isdigit: not empty and every character a digit
IsDigit(s) == Len(s) > 0 /\ \A i \in 1..Len(s) : IsDecimal(s[i]) \/ s[i] \in OtherDigits

\* int() accepts a string that passed isdigit when all of it is decimal
IntParses(s) == Len(s) > 0 /\ \A i \in 1..Len(s) : IsDecimal(s[i])

\* int() of a string of decimal digits
RECURSIVE IntOf(_)
IntOf(s) ==
    IF s = <<>> THEN 0
    ELSE 10 * IntOf(SubSeq(s, 1, Len(s) - 1)) + DigitValue(s[Len(s)])

\* str.lower on the letters the rows carry
LowerChar(c) ==
    CASE c = "T" -> "t" [] c = "R" -> "r" [] c = "U" -> "u" [] c = "E" -> "e"
      [] c = "V" -> "v" [] c = "M" -> "m" [] OTHER -> c
Lower(s) == [i \in 1..Len(s) |-> LowerChar(s[i])]

\* timestamps are kept whole, one string each
T0 == <<"2024-01-01T10:00:00">>
T5 == <<"2024-01-01T10:00:05">>
T5utc == <<"2024-01-01T10:00:05+00:00">>
Garbage == <<"garbage">>

\* datetime.fromisoformat: ValueError on what is no timestamp; the result is
\* offset-aware or naive, secs counts from 2024-01-01T10:00:00
FromIsoFormat(s) ==
    CASE s = T0 -> [ok |-> TRUE, aware |-> FALSE, secs |-> 0]
      [] s = T5 -> [ok |-> TRUE, aware |-> FALSE, secs |-> 5]
      [] s = T5utc -> [ok |-> TRUE, aware |-> TRUE, secs |-> 5]
      [] OTHER -> [ok |-> FALSE, aware |-> FALSE, secs |-> 0]

\* truth value of what .get(key, '') returned: None and '' are false
Truthy(f) == f.kind = "str" /\ f.chars # <<>>

\* the keys of call_outcomes, department_calls and user_calls
Unknown == <<"Unknown">>
OutcomeKeys == {Unknown, <<"Success">>}
DeptKeys == {Unknown, <<"d1">>, <<"d2">>}
UserKeys == {Unknown, <<"u1">>}

\* a row all of whose fields are in order
BaseRow ==
    [Duration |-> Str(<<"7">>), Answered |-> Str(<<"t", "r", "u", "e">>),
     Reason |-> Str(<<>>), AnswerTime |-> Str(T5), StartTime |-> Str(T0),
     Outcome |-> Str(<<"Success">>), Dept |-> Str(<<"d1">>), User |-> Str(<<"u1">>)]

\* the Duration fields tried: absent, None, '', '7', '12', 'abc', '12.5',
\* '-3', and the superscript two
DurationFields ==
    {Absent, None, Str(<<>>), Str(<<"7">>), Str(<<"1", "2">>),
     Str(<<"a", "b", "c">>), Str(<<"1", "2", ".", "5">>), Str(<<"-", "3">>),
     Str(<<"sup2">>)}

Voicemail == <<"v", "o", "i", "c", "e", "m", "a", "i", "l">>
\* the (Answered, Call outcome reason) pairs tried
ClassFields ==
    {<<Str(<<"T", "R", "U", "E">>), Str(<<"V", "o", "i", "c", "e", "M", "a", "i", "l">>)>>,
     <<Str(<<"t", "r", "u", "e">>), None>>,
     <<Str(<<"f", "a", "l", "s", "e">>), Str(Voicemail)>>,
     <<Str(<<"f", "a", "l", "s", "e">>), Str(<<"b", "u", "s", "y">>)>>,
     <<Absent, Absent>>,
     <<None, Str(Voicemail)>>}

\* the (Answer time, Start time) pairs tried
TimeFields ==
    {<<Str(T0), Str(T5)>>, <<Str(T5utc), Str(T0)>>, <<Str(Garbage), Str(T0)>>,
     <<Str(T5), Str(Garbage)>>, <<Absent, Str(T0)>>, <<Str(T5), Str(<<>>)>>,
     <<None, Str(T0)>>}

\* the (Call outcome, Department ID, User) triples tried
KeyFields ==
    {<<Absent, Absent, Absent>>, <<Str(<<"Success">>), Str(<<"d2">>), Str(<<"u1">>)>>}

\* the rows tried: the base row with one group of fields changed
Rows ==
    {[BaseRow EXCEPT !.Duration = d] : d \in DurationFields}
    \cup {[BaseRow EXCEPT !.Answered = c[1], !.Reason = c[2]] : c \in ClassFields}
    \cup {[BaseRow EXCEPT !.AnswerTime = t[1], !.StartTime = t[2]] : t \in TimeFields}
    \cup {[BaseRow EXCEPT !.Outcome = k[1], !.Dept = k[2], !.User = k[3]] : k \in KeyFields}

\* ------------------------------------------------------------ the metrics
\* lines 101 and 113: a new bucket
ZeroBucket == [total_calls |-> 0, connected_calls |-> 0, voicemail_calls |-> 0,
               total_duration |-> 0]

\* lines 33-42: the accumulator of a new processor. A key that a dict does
\* not hold counts 0 here: line 103 and line 180 add 1 right after the key
\* is made, so a key is held exactly when its count is above 0.
ZeroMetrics ==
    [total_duration |-> 0, total_calls |-> 0, connected_calls |-> 0,
     voicemail_calls |-> 0, response_times |-> <<>>,
     call_outcomes |-> [k \in OutcomeKeys |-> 0],
     department_calls |-> [k \in DeptKeys |-> ZeroBucket],
     user_calls |-> [k \in UserKeys |-> ZeroBucket]]

\* no exception
NoExc == [exc |-> "none", line |-> 0]

\* lines 154, 108 and 121, the same expression:
\*   int(item.get('Duration', 0)) if item.get('Duration', '').isdigit() else 0
\* None has no isdigit (AttributeError); int() raises ValueError on a digit
\* that is not decimal
DurationOf(item) ==
    LET f == Get(item.Duration, Str(<<>>))
    IN  IF f.kind = "none" THEN [exc |-> "AttributeError", val |-> 0]
        ELSE IF ~IsDigit(f.chars) THEN [exc |-> "none", val |-> 0]
        ELSE IF ~IntParses(f.chars) THEN [exc |-> "ValueError", val |-> 0]
        ELSE [exc |-> "none", val |-> IntOf(f.chars)]

\* lines 159, 104 and 117: item.get('Answered', '').lower() == 'true'
AnsweredOf(item) ==
    LET f == Get(item.Answered, Str(<<>>))
    IN  IF f.kind = "none" THEN [exc |-> "AttributeError", val |-> FALSE]
        ELSE [exc |-> "none", val |-> Lower(f.chars) = <<"t", "r", "u", "e">>]

\* lines 160/163, 106 and 119:
\*   item.get('Call outcome reason', '').lower() == 'voicemail'
VoicemailOf(item) ==
    LET f == Get(item.Reason, Str(<<>>))
    IN  IF f.kind = "none" THEN [exc |-> "AttributeError", val |-> FALSE]
        ELSE [exc |-> "none", val |-> Lower(f.chars) = Voicemail]

\* a slip of lines 161-164: the reason is looked at first
ClassifyVoicemailFirst(answered, voicemail) ==
    IF voicemail THEN "voicemail" ELSE IF answered THEN "connected" ELSE "neither"

\* lines 161-164: if answered ... elif call_outcome_reason == 'voicemail'
Classify(answered, voicemail) ==
    IF answered THEN "connected" ELSE IF voicemail THEN "voicemail" ELSE "neither"

\* the counters a classification adds to
Count(b, class) ==
    [b EXCEPT !.connected_calls = @ + (IF class = "connected" THEN 1 ELSE 0),
              !.voicemail_calls = @ + (IF class = "voicemail" THEN 1 ELSE 0)]

\* lines 167-177: the sample, if any. Both strings must be truthy; a
\* ValueError of fromisoformat is passed over; subtracting an offset-aware
\* and a naive datetime raises TypeError, which line 176 does not catch
ResponseTime(item) ==
    LET a == Get(item.AnswerTime, Str(<<>>))
        s == Get(item.StartTime, Str(<<>>))
    IN  IF ~(Truthy(a) /\ Truthy(s)) THEN [exc |-> "none", sample |-> <<>>]
        ELSE LET answer_time == FromIsoFormat(a.chars)
                 start_time == FromIsoFormat(s.chars)
             IN  IF ~answer_time.ok \/ ~start_time.ok
                 THEN [exc |-> "none", sample |-> <<>>]
                 ELSE IF answer_time.aware # start_time.aware
                 THEN [exc |-> "TypeError", sample |-> <<>>]
                 ELSE [exc |-> "none", sample |-> <<answer_time.secs - start_time.secs>>]

\* item.get(key, 'Unknown') used as a dict key
KeyOf(f) == Get(f, Str(Unknown)).chars

\* lines 102-108 and 114-121 on one bucket: count, classify, add the
\* duration. The reason is read only when the call was not answered.
UpdateBucket(b, item) ==
    LET b1 == [b EXCEPT !.total_calls = @ + 1]
        a == AnsweredOf(item)
        v == VoicemailOf(item)
        d == DurationOf(item)
    IN  IF a.exc # "none" THEN [b |-> b1, exc |-> a.exc, step |-> 1]
        ELSE IF ~a.val /\ v.exc # "none" THEN [b |-> b1, exc |-> v.exc, step |-> 3]
        ELSE LET b2 == Count(b1, IF a.val THEN "connected"
                                 ELSE IF v.val THEN "voicemail" ELSE "neither")
             IN  IF d.exc # "none" THEN [b |-> b2, exc |-> d.exc, step |-> 5]
                 ELSE [b |-> [b2 EXCEPT !.total_duration = @ + d.val],
                       exc |-> "none", step |-> 0]

\* process_call_record's result: the accumulator it leaves, and the exception
\* it raised with the line that raised it
Raised(m, exc, line) == [m |-> m, exc |-> exc, line |-> line]

\* lines 151-183, statement by statement: what was added before an exception
\* stays added
ProcessCallRecord(m, item) ==
    LET d == DurationOf(item)
    IN  IF d.exc # "none" THEN Raised(m, d.exc, 154) ELSE
    LET m1 == [m EXCEPT !.total_duration = @ + d.val, !.total_calls = @ + 1]
        a == AnsweredOf(item)
    IN  IF a.exc # "none" THEN Raised(m1, a.exc, 159) ELSE
    LET v == VoicemailOf(item)
    IN  IF v.exc # "none" THEN Raised(m1, v.exc, 160) ELSE
    LET class == Classify(a.val, v.val)
        m2 == [m1 EXCEPT !.connected_calls = Count(m1, class).connected_calls,
                         !.voicemail_calls = Count(m1, class).voicemail_calls]
        t == ResponseTime(item)
    IN  IF t.exc # "none" THEN Raised(m2, t.exc, 173) ELSE
    LET m3 == [m2 EXCEPT !.response_times = @ \o t.sample,
                         !.call_outcomes[KeyOf(item.Outcome)] = @ + 1]
        dept == UpdateBucket(m3.department_calls[KeyOf(item.Dept)], item)
        m4 == [m3 EXCEPT !.department_calls[KeyOf(item.Dept)] = dept.b]
    IN  IF dept.exc # "none" THEN Raised(m4, dept.exc, 103 + dept.step) ELSE
    LET user == UpdateBucket(m4.user_calls[KeyOf(item.User)], item)
        m5 == [m4 EXCEPT !.user_calls[KeyOf(item.User)] = user.b]
    IN  IF user.exc # "none" THEN Raised(m5, user.exc, 116 + user.step)
        ELSE Raised(m5, "none", 0)

\* lines 187-191: the try is around the whole loop and catches TypeError
\* only; any other exception leaves process_all_cdr_records
AfterRecord(exc) ==
    CASE exc = "none" -> "looping"
      [] exc = "TypeError" -> "returned"
      [] OTHER -> "raised"

VARIABLES
    stored,            \* ids of the reports stored on the platform
    nextId,            \* id the platform gives to the next created report
    runs,              \* runs of run_report that have ended
    config,            \* which schedule the configuration holds
    pc,                \* position of the current run
    existing_reports,  \* handle_existing_reports: the listed ids
    num_existing_reports, \* handle_existing_reports: the count (-1: unread)
    delete_option,     \* handle_existing_reports: the operator's choice
    delIdx,            \* position of the "delete all" loop
    num_days,          \* fetch_cdr_data: its argument (NoDays: None)
    createArgs,        \* what cdr_report was called with
    report_id,         \* fetch_cdr_data/run_report: the report id (0: None)
    report_status,     \* fetch_cdr_data: last status read
    elapsed,           \* fetch_cdr_data: time.time() - start_time
    statusQueries,     \* fetch_cdr_data: status queries issued by the loop
    sleeps,            \* fetch_cdr_data: sleeps taken by the loop
    cdr_data,          \* run_report: the parsed rows
    rowIdx,            \* process_all_cdr_records: next row to ingest
    total_calls,       \* metrics['total_calls']
    storedAtStart,     \* stored when the run began
    listCalls,         \* list_reports calls of the run
    prompted,          \* the operator was asked for a choice in the run
    deleteCalls,       \* delete_report calls of the run: <<[id, ok]>>
    createCalls,       \* cdr_report calls of the run
    guardResult,       \* what handle_existing_reports returned
    linesResult,       \* what get_report_lines returned
    csvArg,            \* what write_to_csv was called with
    csvWritten,        \* write_to_csv wrote the file
    outcome,           \* how the run ended
    reason,            \* why it failed
    items,             \* process_all_cdr_records: its argument
    fed,               \* process_all_cdr_records: rows the loop has taken
    metrics,           \* self.metrics
    prevMetrics,       \* self.metrics before the last row taken
    lastExc,           \* what the last process_call_record raised, and where
    aggStatus,         \* process_all_cdr_records: looping, returned, raised
    queriedIds,        \* fetch_cdr_data: the ids report_status was called with
    response           \* what routes.run_report answered the request with

gateway == <<stored, nextId>>
guardLocals == <<existing_reports, num_existing_reports, delete_option, delIdx>>
fetchLocals == <<report_id, report_status, elapsed, statusQueries, sleeps>>
aggLocals == <<cdr_data, rowIdx, total_calls>>
events == <<storedAtStart, listCalls, prompted, deleteCalls, createCalls,
            guardResult, linesResult, csvArg, csvWritten>>
ending == <<outcome, reason>>
fetchArgs == <<num_days, createArgs>>
aggregation == <<items, fed, metrics, prevMetrics, lastExc, aggStatus>>
observed == <<queriedIds, response>>
vars == <<gateway, runs, config, pc, guardLocals, fetchLocals, aggLocals,
          events, ending, fetchArgs, aggregation, observed>>

\* createArgs before cdr_report was called
NoArgs == [days |-> NoDays, start |-> 0, end |-> 0]

\* csvArg before write_to_csv was called
NotCalled == <<"not called">>

Fresh ==
    /\ existing_reports = <<>>
    /\ num_existing_reports = -1
    /\ delete_option = ""
    /\ delIdx = 0
    /\ num_days = NoDays
    /\ createArgs = NoArgs
    /\ report_id = 0
    /\ report_status = "unknown"
    /\ elapsed = 0
    /\ statusQueries = 0
    /\ sleeps = 0
    /\ cdr_data = <<>>
    /\ rowIdx = 0
    /\ total_calls = 0
    /\ listCalls = 0
    /\ prompted = FALSE
    /\ deleteCalls = <<>>
    /\ createCalls = 0
    /\ guardResult = "none"
    /\ linesResult = "none"
    /\ csvArg = NotCalled
    /\ csvWritten = FALSE
    /\ outcome = "none"
    /\ reason = ""
    /\ queriedIds = {}
    /\ response = "none"

\* a processor that process_all_cdr_records has not been called on
NoAggregation ==
    /\ items = <<>>
    /\ fed = 0
    /\ metrics = ZeroMetrics
    /\ prevMetrics = ZeroMetrics
    /\ lastExc = NoExc
    /\ aggStatus = "looping"

Init ==
    /\ \E n \in InitCounts : stored = 1..n
    /\ nextId = FirstNewId
    /\ runs = 0
    /\ config \in Configs
    /\ pc = "idle"
    /\ storedAtStart = stored
    /\ Fresh
    /\ NoAggregation

\* ------------------------------------------------------------ helpers
\* the platform may refuse to delete, or the call may break, for these ids
Flaky(id) == id \in 1..MaxFlaky \/ id >= FirstNewId

\* MyWebex.delete_report: 204 deletes and returns True, any other status
\* returns False, and an exception of requests passes through
DeleteOutcomes(id) ==
    IF id \in stored
    THEN IF Flaky(id) THEN {"204", "refused", "raise"} ELSE {"204"}
    ELSE {"refused"}

DeleteCall(id, res) ==
    /\ res \in DeleteOutcomes(id)
    /\ stored' = IF res = "204" THEN stored \ {id} ELSE stored
    /\ deleteCalls' = Append(deleteCalls, [id |-> id, ok |-> (res = "204")])

\* run_report's except clause, line 265: the run ends Failed
Fail(r) ==
    /\ pc' = "done"
    /\ outcome' = "Failed"
    /\ reason' = r

\* a slip of lines 90-94: the call that raised is made again
GatewayRaisedRetried ==
    /\ pc' = pc
    /\ outcome' = outcome
    /\ reason' = "GatewayError"

\* lines 90-94: a gateway call inside fetch_cdr_data raised; fetch_cdr_data
\* returns None, which line 248 cannot unpack
GatewayRaised == Fail("GatewayError")

\* a slip of lines 75-77: the lines are fetched after the timeout
TimeoutReturnFetchesLines ==
    /\ pc' = "lines"
    /\ outcome' = outcome
    /\ reason' = "PollTimeout"

\* lines 75-77: return None at the timeout, which line 248 cannot unpack
TimeoutReturn == Fail("PollTimeout")

\* a slip of line 260: the lowest stored id is deleted
CleanupTargetLowest == IF stored = {} THEN report_id
                       ELSE CHOOSE x \in stored : \A y \in stored : x <= y

\* line 260: the id fetch_cdr_data returned
CleanupTarget == report_id

\* the locals of fetch_cdr_data are gone when it returns
FetchReturns ==
    /\ report_status' = "unknown"
    /\ elapsed' = 0
    /\ statusQueries' = 0
    /\ sleeps' = 0
    /\ queriedIds' = {}

\* a slip of line 207: the prompt also comes up one below the ceiling
AtCeilingLoose(n) == n >= Ceiling - 1

\* line 207
AtCeiling(n) == n = Ceiling

\* a slip of line 232: a full store passes
HasCapacityLoose(n) == n <= Ceiling

\* line 232
HasCapacity(n) == n < Ceiling

\* a slip of line 245: the guard's answer is dropped
ProceedsAlways(ret) == TRUE

\* line 245: if not self.handle_existing_reports(): return
Proceeds(ret) == ret

\* handle_existing_reports returns at line 232 and run_report branches on it
GuardReturns(n) ==
    LET ret == HasCapacity(n)
    IN  /\ guardResult' = IF ret THEN "true" ELSE "false"
        /\ IF Proceeds(ret)
           THEN pc' = "config" /\ UNCHANGED ending
           ELSE pc' = "done" /\ outcome' = "QuotaExceeded" /\ reason' = ""

\* a slip of lines 251-260: the report is deleted first
RunReportBodyDeleteFirst == <<"delete_report", "write_to_csv", "process", "finished">>

\* lines 251-262, the branch of run_report taken when cdr_data is truthy
RunReportBody == <<"write_to_csv", "process", "delete_report", "finished">>

StepAfter(p) ==
    LET i == CHOOSE k \in 1..Len(RunReportBody) : RunReportBody[k] = p
    IN  RunReportBody[i + 1]

Goto(p) ==
    IF p = "finished"
    THEN pc' = "done" /\ outcome' = "Completed" /\ reason' = ""
    ELSE pc' = p /\ UNCHANGED ending

\* ------------------------------------------------------------ the quota guard
StartRun ==
    /\ pc = "idle"
    /\ UNCHANGED observed
    /\ UNCHANGED aggregation
    /\ UNCHANGED fetchArgs
    /\ runs < MaxRuns
    /\ pc' = "list"
    /\ storedAtStart' = stored
    /\ UNCHANGED <<gateway, runs, config, guardLocals, fetchLocals, aggLocals,
                   listCalls, prompted, deleteCalls, createCalls, guardResult,
                   linesResult, csvArg, csvWritten, ending>>

\* lines 201-207 and 232: list, count, and return at once below the ceiling
ListReports ==
    /\ pc = "list"
    /\ UNCHANGED observed
    /\ UNCHANGED aggregation
    /\ UNCHANGED fetchArgs
    /\ listCalls' = listCalls + 1
    /\ existing_reports' = SortedSeq(stored)
    /\ num_existing_reports' = Len(existing_reports')
    /\ IF AtCeiling(num_existing_reports')
       THEN pc' = "prompt" /\ UNCHANGED <<guardResult, ending>>
       ELSE GuardReturns(num_existing_reports')
    /\ UNCHANGED <<gateway, runs, config, delete_option, delIdx, fetchLocals,
                   aggLocals, storedAtStart, prompted, deleteCalls, createCalls,
                   linesResult, csvArg, csvWritten>>

\* lines 193-198 and 202: list_reports raises, get_all_reports returns None,
\* and len(None) raises TypeError
ListReportsRaises ==
    /\ pc \in {"list", "recount"}
    /\ UNCHANGED observed
    /\ UNCHANGED aggregation
    /\ UNCHANGED fetchArgs
    /\ listCalls' = listCalls + 1
    /\ Fail("ListFailed")
    /\ UNCHANGED <<gateway, runs, config, guardLocals, fetchLocals, aggLocals,
                   storedAtStart, prompted, deleteCalls, createCalls,
                   guardResult, linesResult, csvArg, csvWritten>>

\* lines 214-226: the operator's choice
ChooseOption ==
    /\ pc = "prompt"
    /\ UNCHANGED observed
    /\ UNCHANGED aggregation
    /\ UNCHANGED fetchArgs
    /\ prompted' = TRUE
    /\ \E o \in Options :
        /\ delete_option' = o
        /\ CASE o = "1" -> pc' = "delete_one" /\ delIdx' = delIdx /\ UNCHANGED ending
             [] o = "2" -> /\ delIdx' = 1
                           /\ pc' = IF Len(existing_reports) = 0 THEN "recount" ELSE "delete_all"
                           /\ UNCHANGED ending
             [] o = "3" -> \* sys.exit(1): SystemExit is no Exception, line 265
                           \* does not catch it
                           /\ pc' = "done"
                           /\ outcome' = "SystemExit"
                           /\ reason' = "sys.exit(1)"
                           /\ delIdx' = delIdx
             [] OTHER   -> pc' = "recount" /\ delIdx' = delIdx /\ UNCHANGED ending
    /\ UNCHANGED <<gateway, runs, config, existing_reports, num_existing_reports,
                   fetchLocals, aggLocals, storedAtStart, listCalls, deleteCalls,
                   createCalls, guardResult, linesResult, csvArg, csvWritten>>

\* lines 220-221
DeleteOne ==
    /\ pc = "delete_one"
    /\ UNCHANGED observed
    /\ UNCHANGED aggregation
    /\ UNCHANGED fetchArgs
    /\ \E id \in InputIds, res \in {"204", "refused", "raise"} :
        /\ DeleteCall(id, res)
        /\ IF res = "raise"
           THEN Fail("GatewayError")
           ELSE pc' = "recount" /\ UNCHANGED ending
    /\ UNCHANGED <<nextId, runs, config, guardLocals, fetchLocals, aggLocals,
                   storedAtStart, listCalls, prompted, createCalls, guardResult,
                   linesResult, csvArg, csvWritten>>

\* lines 223-224, one turn of the loop
DeleteAll ==
    /\ pc = "delete_all"
    /\ UNCHANGED observed
    /\ UNCHANGED aggregation
    /\ UNCHANGED fetchArgs
    /\ \E res \in {"204", "refused", "raise"} :
        /\ DeleteCall(existing_reports[delIdx], res)
        /\ IF res = "raise"
           THEN Fail("GatewayError") /\ delIdx' = delIdx
           ELSE /\ delIdx' = delIdx + 1
                /\ pc' = IF delIdx = Len(existing_reports) THEN "recount" ELSE "delete_all"
                /\ UNCHANGED ending
    /\ UNCHANGED <<nextId, runs, config, existing_reports, num_existing_reports,
                   delete_option, fetchLocals, aggLocals, storedAtStart,
                   listCalls, prompted, createCalls, guardResult, linesResult,
                   csvArg, csvWritten>>

\* a slip of lines 228-229: the count is not read again
RecountStale ==
    /\ pc = "recount"
    /\ UNCHANGED observed
    /\ UNCHANGED aggregation
    /\ UNCHANGED fetchArgs
    /\ GuardReturns(num_existing_reports)
    /\ UNCHANGED <<gateway, runs, config, guardLocals, fetchLocals, aggLocals,
                   storedAtStart, listCalls, prompted, deleteCalls, createCalls,
                   linesResult, csvArg, csvWritten>>

\* lines 228-232
Recount ==
    /\ pc = "recount"
    /\ UNCHANGED observed
    /\ UNCHANGED aggregation
    /\ UNCHANGED fetchArgs
    /\ listCalls' = listCalls + 1
    /\ existing_reports' = SortedSeq(stored)
    /\ num_existing_reports' = Len(existing_reports')
    /\ GuardReturns(num_existing_reports')
    /\ UNCHANGED <<gateway, runs, config, delete_option, delIdx, fetchLocals,
                   aggLocals, storedAtStart, prompted, deleteCalls, createCalls,
                   linesResult, csvArg, csvWritten>>

\* ------------------------------------------------------------ create and poll
\* a slip of lines 235-237: the date pair is looked at first
ScheduleOfDatesFirst(c) ==
    IF c.start # 0 /\ c.end # 0 THEN "dates"
    ELSE IF c.days # NoDays /\ c.days # 0 THEN "days"
    ELSE "none"

\* lines 235-241: an int that is not 0, else both dates, else nothing
ScheduleOf(c) ==
    IF c.days # NoDays /\ c.days # 0 THEN "days"
    ELSE IF c.start # 0 /\ c.end # 0 THEN "dates"
    ELSE "none"

\* lines 234-241, and the tuple assignment of line 248 on a None result
FetchBasedOnConfig ==
    /\ pc = "config"
    /\ UNCHANGED observed
    /\ UNCHANGED aggregation
    /\ CASE ScheduleOf(config) = "days" ->
              num_days' = config.days /\ pc' = "create" /\ UNCHANGED ending
         [] ScheduleOf(config) = "dates" ->
              num_days' = NoDays /\ pc' = "create" /\ UNCHANGED ending
         [] OTHER ->
              num_days' = num_days /\ Fail("NoScheduleConfigured")
    /\ UNCHANGED createArgs
    /\ UNCHANGED <<gateway, runs, config, guardLocals, fetchLocals, aggLocals,
                   events>>

\* line 53, if num_days: None and 0 take the else branch
ByDays(n) == n # NoDays /\ n # 0

\* lines 55 and 60-65: the arguments of cdr_report
CreateArgsOf(n, c) ==
    IF ByDays(n) THEN [days |-> n, start |-> 0, end |-> 0]
    ELSE [days |-> NoDays, start |-> c.start, end |-> c.end]

\* lines 53-70: the creation request
CreateReport ==
    /\ pc = "create"
    /\ UNCHANGED observed
    /\ UNCHANGED aggregation
    /\ createCalls' = createCalls + 1
    /\ createArgs' = CreateArgsOf(num_days, config)
    /\ UNCHANGED num_days
    /\ \E res \in {"id", "noid", "raise", "lost"} :
        CASE res = "id" ->
               /\ stored' = stored \cup {nextId}
               /\ nextId' = nextId + 1
               /\ report_id' = nextId
               /\ pc' = "poll"
               /\ UNCHANGED ending
          [] res = "noid" ->
               /\ UNCHANGED <<gateway, report_id>>
               /\ IF ByDays(num_days)
                  THEN Fail("ReportCreationFailed")   \* lines 56-57
                  ELSE pc' = "poll" /\ UNCHANGED ending  \* line 65: no check
          [] res = "lost" ->
               \* the platform stored the report, the answer never arrived
               /\ stored' = stored \cup {nextId}
               /\ nextId' = nextId + 1
               /\ report_id' = report_id
               /\ GatewayRaised
          [] OTHER ->
               /\ UNCHANGED <<gateway, report_id>>
               /\ GatewayRaised
    /\ UNCHANGED <<runs, config, guardLocals, report_status, elapsed,
                   statusQueries, sleeps, aggLocals, storedAtStart, listCalls,
                   prompted, deleteCalls, guardResult, linesResult, csvArg,
                   csvWritten>>

\* a slip of line 75: the difference is taken the wrong way round
TimedOutNever(e) == 0 - e > Timeout

\* line 75
TimedOut(e) == e > Timeout

\* lines 74-78: the loop's test, the timeout test and the sleep
PollTick ==
    /\ pc = "poll"
    /\ UNCHANGED response
    /\ UNCHANGED aggregation
    /\ UNCHANGED fetchArgs
    /\ IF TimedOut(elapsed)
       THEN TimeoutReturn /\ FetchReturns
       ELSE /\ sleeps' = sleeps + 1
            /\ elapsed' = elapsed + SleepInterval
            /\ pc' = "status"
            /\ UNCHANGED <<report_status, statusQueries, queriedIds, ending>>
    /\ UNCHANGED <<gateway, runs, config, guardLocals, report_id, aggLocals,
                   events>>

\* line 79: a report that exists is pending or done; a query for no report
\* is answered with an error status or raises
StatusOutcomes == IF report_id \in stored THEN {"pending", "done", "raise"}
                  ELSE {"pending", "raise"}

StatusQuery ==
    /\ pc = "status"
    /\ UNCHANGED response
    /\ UNCHANGED aggregation
    /\ UNCHANGED fetchArgs
    /\ \E res \in StatusOutcomes :
        CASE res = "pending" ->
               /\ report_status' = "pending"
               /\ statusQueries' = statusQueries + 1
               /\ queriedIds' = queriedIds \cup {report_id}
               /\ pc' = "poll"
               /\ UNCHANGED <<elapsed, sleeps, ending>>
          [] res = "done" ->
               /\ report_status' = "done"
               /\ statusQueries' = statusQueries + 1
               /\ queriedIds' = queriedIds \cup {report_id}
               /\ pc' = "lines"
               /\ UNCHANGED <<elapsed, sleeps, ending>>
          [] OTHER -> GatewayRaised /\ FetchReturns
    /\ UNCHANGED <<gateway, runs, config, guardLocals, report_id, aggLocals,
                   events>>

\* lines 83-88, then lines 248-250 and 263-264 of run_report
GetReportLines ==
    /\ pc = "lines"
    /\ UNCHANGED response
    /\ UNCHANGED aggregation
    /\ UNCHANGED fetchArgs
    /\ FetchReturns
    /\ \E res \in {"lines", "empty", "raise"} :
        CASE res = "lines" ->
               /\ linesResult' = "lines"
               /\ \E rows \in SeqsUpTo(RowKinds, MaxRows) :
                    /\ cdr_data' = rows
                    /\ IF Len(rows) > 0
                       THEN Goto(RunReportBody[1])
                       ELSE pc' = "done" /\ outcome' = "NoData" /\ reason' = ""
          [] res = "empty" ->
               \* return None, and line 248 cannot unpack it
               /\ linesResult' = "empty"
               /\ cdr_data' = cdr_data
               /\ Fail("NoneReturned")
          [] OTHER ->
               /\ UNCHANGED <<linesResult, cdr_data>>
               /\ GatewayRaised
    /\ UNCHANGED <<gateway, runs, config, guardLocals, report_id, rowIdx,
                   total_calls, storedAtStart, listCalls, prompted, deleteCalls,
                   createCalls, guardResult, csvArg, csvWritten>>

\* ------------------------------------------------------------ the body
\* line 251; funcs.py 97-127: every Exception is caught inside
WriteToCsv ==
    /\ pc = "write_to_csv"
    /\ UNCHANGED observed
    /\ UNCHANGED aggregation
    /\ UNCHANGED fetchArgs
    /\ csvArg' = cdr_data
    /\ csvWritten' \in BOOLEAN
    /\ Goto(StepAfter("write_to_csv"))
    /\ UNCHANGED <<gateway, runs, config, guardLocals, fetchLocals, aggLocals,
                   storedAtStart, listCalls, prompted, deleteCalls, createCalls,
                   guardResult, linesResult>>

\* lines 185-191 and 151-183: one turn of the loop, or its end
ProcessRecord ==
    /\ pc = "process"
    /\ UNCHANGED observed
    /\ UNCHANGED aggregation
    /\ UNCHANGED fetchArgs
    /\ IF rowIdx < Len(cdr_data)
       THEN LET kind == cdr_data[rowIdx + 1]
            IN  CASE kind \in {"ok", "long"} ->
                       /\ total_calls' = total_calls + 1
                       /\ rowIdx' = rowIdx + 1
                       /\ UNCHANGED <<pc, ending>>
                  [] kind = "tzmix" ->
                       \* counted at line 156, TypeError at line 173, caught
                       \* at line 190 outside the loop
                       /\ total_calls' = total_calls + 1
                       /\ rowIdx' = rowIdx
                       /\ Goto(StepAfter("process"))
                  [] OTHER ->
                       \* AttributeError at line 154, not caught at line 190
                       /\ UNCHANGED <<total_calls, rowIdx>>
                       /\ Fail("AttributeError")
       ELSE /\ UNCHANGED <<total_calls, rowIdx>>
            /\ Goto(StepAfter("process"))
    /\ UNCHANGED <<gateway, runs, config, guardLocals, fetchLocals, cdr_data,
                   events>>

\* lines 259-262
CleanupDelete ==
    /\ pc = "delete_report"
    /\ UNCHANGED observed
    /\ UNCHANGED aggregation
    /\ UNCHANGED fetchArgs
    /\ \E res \in {"204", "refused", "raise"} :
        /\ DeleteCall(CleanupTarget, res)
        /\ IF res = "raise"
           THEN Fail("GatewayError")
           ELSE Goto(StepAfter("delete_report"))
    /\ UNCHANGED <<nextId, runs, config, guardLocals, fetchLocals, aggLocals,
                   storedAtStart, listCalls, prompted, createCalls, guardResult,
                   linesResult, csvArg, csvWritten>>

\* routes.py 117-123, for a request that carries a token and whose processor
\* was constructed: whatever run_report returns, the answer is the redirect
\* to /complete; an Exception out of run_report would give /error; SystemExit
\* is no Exception and leaves the handler
ResponseOf(o) ==
    CASE o = "SystemExit" -> "SystemExit"
      [] o = "Exception" -> "/error"
      [] OTHER -> "/complete"

\* routes.py 119-123: run_report is over and the request is answered
Respond ==
    /\ pc = "done"
    /\ response = "none"
    /\ response' = ResponseOf(outcome)
    /\ UNCHANGED <<gateway, runs, config, pc, guardLocals, fetchLocals,
                   aggLocals, events, ending, fetchArgs, aggregation,
                   queriedIds>>

\* the request is over; the processor object is dropped (routes.py 118-119)
EndRun ==
    /\ pc = "done"
    /\ response # "none"
    /\ response' = "none"
    /\ queriedIds' = {}
    /\ UNCHANGED aggregation
    /\ pc' = "idle"
    /\ runs' = runs + 1
    /\ storedAtStart' = stored
    /\ existing_reports' = <<>>
    /\ num_existing_reports' = -1
    /\ delete_option' = ""
    /\ delIdx' = 0
    /\ num_days' = NoDays
    /\ createArgs' = NoArgs
    /\ report_id' = 0
    /\ report_status' = "unknown"
    /\ elapsed' = 0
    /\ statusQueries' = 0
    /\ sleeps' = 0
    /\ cdr_data' = <<>>
    /\ rowIdx' = 0
    /\ total_calls' = 0
    /\ listCalls' = 0
    /\ prompted' = FALSE
    /\ deleteCalls' = <<>>
    /\ createCalls' = 0
    /\ guardResult' = "none"
    /\ linesResult' = "none"
    /\ csvArg' = NotCalled
    /\ csvWritten' = FALSE
    /\ outcome' = "none"
    /\ reason' = ""
    /\ UNCHANGED <<gateway, config>>

Next ==
    \/ StartRun
    \/ ListReports
    \/ ListReportsRaises
    \/ ChooseOption
    \/ DeleteOne
    \/ DeleteAll
    \/ Recount
    \/ FetchBasedOnConfig
    \/ CreateReport
    \/ PollTick
    \/ StatusQuery
    \/ GetReportLines
    \/ WriteToCsv
    \/ ProcessRecord
    \/ CleanupDelete
    \/ Respond
    \/ EndRun

Spec == Init /\ [][Next]_vars

\* ------------------------------------------------------------ a direct call
\* fetch_cdr_data(num_days) called on its own, lines 48-94, with any argument
\* and a configuration that loaded. "done" with outcome "Failed" is then the
\* return of None.
InitFetch ==
    /\ stored = {}
    /\ nextId = FirstNewId
    /\ runs = 0
    /\ config \in Configs
    /\ pc = "create"
    /\ storedAtStart = stored
    /\ existing_reports = <<>>
    /\ num_existing_reports = -1
    /\ delete_option = ""
    /\ delIdx = 0
    /\ num_days \in DayArgs
    /\ createArgs = NoArgs
    /\ report_id = 0
    /\ report_status = "unknown"
    /\ elapsed = 0
    /\ statusQueries = 0
    /\ sleeps = 0
    /\ cdr_data = <<>>
    /\ rowIdx = 0
    /\ total_calls = 0
    /\ listCalls = 0
    /\ prompted = FALSE
    /\ deleteCalls = <<>>
    /\ createCalls = 0
    /\ guardResult = "none"
    /\ linesResult = "none"
    /\ csvArg = NotCalled
    /\ csvWritten = FALSE
    /\ outcome = "none"
    /\ reason = ""
    /\ queriedIds = {}
    /\ response = "none"
    /\ NoAggregation

NextFetch ==
    \/ CreateReport
    \/ PollTick
    \/ StatusQuery
    \/ GetReportLines

SpecFetch == InitFetch /\ [][NextFetch]_vars

\* ------------------------------------------------------------ the aggregation
\* process_all_cdr_records(rows) called on a new processor, lines 185-191
InitMetrics ==
    /\ stored = {}
    /\ nextId = FirstNewId
    /\ runs = 0
    /\ config \in {c \in Configs : c.days = 7 /\ c.start = 0}
    /\ pc = "process"
    /\ storedAtStart = stored
    /\ Fresh
    /\ items \in SeqsUpTo(Rows, MaxSeq)
    /\ fed = 0
    /\ metrics = ZeroMetrics
    /\ prevMetrics = ZeroMetrics
    /\ lastExc = NoExc
    /\ aggStatus = "looping"

\* one turn of the loop of line 188
Ingest ==
    /\ aggStatus = "looping"
    /\ fed < Len(items)
    /\ LET res == ProcessCallRecord(metrics, items[fed + 1])
       IN  /\ metrics' = res.m
           /\ lastExc' = [exc |-> res.exc, line |-> res.line]
           /\ aggStatus' = AfterRecord(res.exc)
    /\ prevMetrics' = metrics
    /\ fed' = fed + 1
    /\ UNCHANGED <<items, gateway, runs, config, pc, guardLocals, fetchLocals,
                   aggLocals, events, ending, fetchArgs, observed>>

\* the loop of line 188 has no row left
LoopEnds ==
    /\ aggStatus = "looping"
    /\ fed = Len(items)
    /\ aggStatus' = "returned"
    /\ UNCHANGED <<items, fed, metrics, prevMetrics, lastExc, gateway, runs,
                   config, pc, guardLocals, fetchLocals, aggLocals, events,
                   ending, fetchArgs, observed>>

NextMetrics ==
    \/ Ingest
    \/ LoopEnds

SpecMetrics == InitMetrics /\ [][NextMetrics]_vars

TypeOK ==
    /\ stored \subseteq 1..(FirstNewId + MaxRuns)
    /\ pc \in {"idle", "list", "prompt", "delete_one", "delete_all", "recount",
               "config", "create", "poll", "status", "lines", "write_to_csv",
               "process", "delete_report", "done"}
    /\ outcome \in {"none", "Completed", "NoData", "QuotaExceeded", "Failed", "SystemExit"}
    /\ guardResult \in {"none", "true", "false"}
    /\ response \in {"none", "/complete", "/error", "SystemExit"}
    /\ queriedIds \subseteq {report_id}
    /\ fed \in 0..Len(items)
    /\ Len(items) <= MaxSeq
    /\ \A i \in 1..Len(items) : items[i] \in Rows
    /\ aggStatus \in {"looping", "returned", "raised"}
    /\ lastExc.exc \in {"none", "TypeError", "AttributeError", "ValueError"}
    /\ metrics.total_calls \in 0..fed


\* ------------------------------------------------------------ properties
\* the ids delete_report was called with in this run, in call order
DeletedIds == [i \in 1..Len(deleteCalls) |-> deleteCalls[i].id]

\* delete_report was called for the report this run created
CleanupInvoked == report_id # 0 /\ \E i \in 1..Len(deleteCalls) : deleteCalls[i].id = report_id

\* handle_existing_reports has just returned to run_report
GuardJustReturned ==
    /\ guardResult # "none"
    /\ pc = "config" \/ (pc = "done" /\ outcome = "QuotaExceeded")

\* status queries the loop can issue before line 75 stops it
MaxQueries == Timeout \div SleepInterval + 1

\* C1: a creation request is issued only after handle_existing_reports has
\* returned true in the same run, the last count read being below the
\* ceiling; when it returned false the run is over and has created nothing.
C1_CreateOnlyAfterGuard ==
    /\ (pc = "create" \/ createCalls > 0) =>
          /\ guardResult = "true"
          /\ listCalls >= 1
          /\ num_existing_reports >= 0
          /\ num_existing_reports < Ceiling
    /\ guardResult = "false" =>
          /\ createCalls = 0
          /\ pc = "done"
          /\ outcome = "QuotaExceeded"

\* C1 witness: a report was created in a run whose guard had to free capacity
C1_Witness == createCalls = 1 /\ prompted /\ guardResult = "true" /\ report_id \in stored

\* C2 (as claimed): a run that parsed the report's lines into rows ends with
\* delete_report called for that report, whatever the aggregation did.
C2_DeleteAfterParsing ==
    (pc = "done" /\ linesResult = "lines") => CleanupInvoked

\* C3: the number of stored reports never exceeds the ceiling.
C3_StoredWithinCeiling == Cardinality(stored) <= Ceiling

\* C3 witness: a later run of a sequence has filled the store to the ceiling
C3_Witness == runs >= 1 /\ createCalls = 1 /\ report_id \in stored /\ Cardinality(stored) = Ceiling

\* C4: delete_report is called for the run's report only after write_to_csv
\* was called with all the parsed rows.
C4_PersistBeforeDelete == CleanupInvoked => csvArg = cdr_data

\* C4 witness: the run's report was deleted
C4_Witness == CleanupInvoked /\ outcome = "Completed"

\* C5 (as claimed): run_report always returns normally, with one of the
\* outcomes Completed, NoData, QuotaExceeded, Failed.
C5_NeverPropagates ==
    pc = "done" => outcome \in {"Completed", "NoData", "QuotaExceeded", "Failed"}

\* C6 (as claimed): at the ceiling, the operator's choice 3 ends the run with a
\* clean negative result: nothing raised, nothing deleted, nothing created.
C6_AbortIsClean ==
    (prompted /\ delete_option = "3") =>
        /\ outcome = "QuotaExceeded"
        /\ guardResult = "false"
        /\ deleteCalls = <<>>
        /\ createCalls = 0

\* C7: the poll loop stops. It issues at most MaxQueries status queries, each
\* after one more sleep; it returns the timeout failure exactly when the
\* elapsed time is found above the timeout, and it stops at the query that
\* answers done.
C7_PollLoopTerminates ==
    [][ /\ statusQueries' <= MaxQueries
        /\ elapsed' = sleeps' * SleepInterval
        /\ (pc = "poll" /\ elapsed > Timeout) => (pc' = "done" /\ reason' = "PollTimeout")
        /\ (pc = "poll" /\ reason' = "PollTimeout") => elapsed > Timeout
        /\ (pc = "status" /\ report_status' = "done") => pc' = "lines"
        /\ (pc = "status" /\ pc' = "poll") => statusQueries' = statusQueries + 1
      ]_vars

\* C7 witness: the loop ran to the timeout
C7_Witness == outcome = "Failed" /\ reason = "PollTimeout"

\* C8 (as claimed): when get_report_lines returns no lines the run ends NoData,
\* not Failed, and write_to_csv is not called.
C8_EmptyLinesIsNoData ==
    (pc = "done" /\ linesResult = "empty") =>
        /\ outcome = "NoData"
        /\ csvArg = NotCalled

\* C9: when handle_existing_reports returns after the choice "delete all",
\* delete_report was called once for each listed report, the count was read
\* again, and the result is (count read again < ceiling); when every deletion
\* succeeded that count is 0 and the result is true.
C9_DeleteAllThenRecount ==
    (GuardJustReturned /\ delete_option = "2") =>
        /\ DeletedIds = SortedSeq(storedAtStart)
        /\ Len(DeletedIds) = Ceiling
        /\ listCalls = 2
        /\ num_existing_reports = Cardinality(stored)
        /\ guardResult = "true" <=> num_existing_reports < Ceiling
        /\ (\A i \in 1..Len(deleteCalls) : deleteCalls[i].ok) =>
              /\ num_existing_reports = 0
              /\ guardResult = "true"

\* C9 witness: delete all, every deletion succeeded, the guard returned
C9_Witness ==
    /\ GuardJustReturned
    /\ delete_option = "2"
    /\ Len(deleteCalls) = Ceiling
    /\ \A i \in 1..Len(deleteCalls) : deleteCalls[i].ok

\* C10: when the count read is below the ceiling, handle_existing_reports
\* returns true with no prompt, no delete_report call and no second reading,
\* and leaves the stored reports as they were.
C10_BelowCeilingNoInteraction ==
    (Cardinality(storedAtStart) < Ceiling /\ listCalls >= 1 /\ reason # "ListFailed") =>
        /\ guardResult = "true"
        /\ ~prompted
        /\ delete_option = ""
        /\ listCalls = 1
        /\ num_existing_reports = Cardinality(storedAtStart)
        /\ pc = "config" => (deleteCalls = <<>> /\ stored = storedAtStart)
        /\ \A i \in 1..Len(deleteCalls) : deleteCalls[i].id = report_id

\* C10 witness: the guard returned at one below the ceiling
C10_Witness ==
    /\ pc = "config"
    /\ Cardinality(storedAtStart) = Ceiling - 1
    /\ guardResult = "true"


\* C11: the creation request carries the day count whenever one is configured
\* and not 0, with or without dates; otherwise the date pair when both dates
\* are configured; otherwise no creation request is issued and the run fails.
C11_SchedulePrecedence ==
    /\ createCalls > 0 =>
          IF config.days # NoDays /\ config.days # 0
          THEN createArgs = [days |-> config.days, start |-> 0, end |-> 0]
          ELSE /\ config.start # 0
               /\ config.end # 0
               /\ createArgs = [days |-> NoDays, start |-> config.start, end |-> config.end]
    /\ (config.days \in {NoDays, 0} /\ (config.start = 0 \/ config.end = 0)) =>
          /\ createCalls = 0
          /\ pc # "create"
          /\ (guardResult = "true" /\ pc # "config") =>
                (pc = "done" /\ outcome = "Failed" /\ reason = "NoScheduleConfigured")

\* C11 witness: day count and dates both configured, the report was requested
\* by day count
C11_Witness ==
    /\ createCalls = 1
    /\ config.days = 7
    /\ config.start # 0
    /\ config.end # 0
    /\ createArgs.days = 7

\* C17 (as claimed): when a row fails, the rows after it are still ingested
\* and the run goes on to its later steps.
C17_RowFailureDoesNotAbort ==
    (pc = "done" /\ csvArg = cdr_data /\ Len(cdr_data) > 0) =>
        /\ \A i \in 1..Len(cdr_data) : cdr_data[i] \in {"ok", "long"} => i <= rowIdx
        /\ CleanupInvoked

\* C18 (as claimed): a data row whose field count differs from the header's
\* makes the run end Failed, never Completed.
C18_MalformedReportFails ==
    (pc = "done" /\ \E i \in 1..Len(cdr_data) : cdr_data[i] \in {"short", "long"}) =>
        outcome = "Failed"

\* C19 (as claimed): when the creation request returns no report id,
\* fetch_cdr_data fails at once, by day count and by date pair alike: no
\* sleep, no status query, no line retrieval.
C19_NoIdFailsAtOnce ==
    (createCalls = 1 /\ report_id = 0) =>
        /\ pc = "done"
        /\ outcome = "Failed"
        /\ linesResult = "none"

\* C20 (as claimed): fetch_cdr_data called with a day count outside 1..31, or
\* with a date pair that ends before it starts or spans more than 30 days,
\* issues no creation request and returns the failure.
C20_OutOfRangeRejected ==
    (\/ ByDays(num_days) /\ ~(1 <= num_days /\ num_days <= 31)
     \/ ~ByDays(num_days) /\ config.start # 0 /\ config.end # 0
          /\ ~(config.end >= config.start /\ config.end - config.start <= 30)) =>
        /\ createCalls = 0
        /\ pc \in {"create", "done"}

\* ------------------------------------------------------------ the metrics' properties
\* the four counters of the accumulator and of every bucket
Counters == {"total_calls", "connected_calls", "voicemail_calls", "total_duration"}

\* the sum of one counter over the buckets of a dict
RECURSIVE SumOver(_, _, _)
SumOver(buckets, keys, counter) ==
    IF keys = {} THEN 0
    ELSE LET k == CHOOSE x \in keys : TRUE
         IN  buckets[k][counter] + SumOver(buckets, keys \ {k}, counter)

\* the Answered field equals 'true', whatever the case
AnsweredTrue(item) ==
    item.Answered.kind = "str" /\ Lower(item.Answered.chars) = <<"t", "r", "u", "e">>

\* the field is present and is a timestamp
ParsesAsTime(f) == f.kind = "str" /\ FromIsoFormat(f.chars).ok

\* the fields other than the two timestamps raise nothing
SoundButForTimes(item) ==
    /\ DurationOf(item).exc = "none"
    /\ AnsweredOf(item).exc = "none"
    /\ VoicemailOf(item).exc = "none"

\* connected_calls + voicemail_calls <= total_calls in an accumulator or bucket
WithinTotal(b) == b.connected_calls + b.voicemail_calls <= b.total_calls

\* from before to after, at most one of the two counters went up, by one
AtMostOneUp(before, after) ==
    LET c == after.connected_calls - before.connected_calls
        v == after.voicemail_calls - before.voicemail_calls
    IN  c >= 0 /\ v >= 0 /\ c + v <= 1

\* C12: when process_all_cdr_records returns, total_calls is the number of
\* rows it was given, whatever the rows hold.
C12_TotalCallsIsRowCount ==
    aggStatus = "returned" => metrics.total_calls = Len(items)

C14_BucketsAgreeWithGlobals ==
    aggStatus = "returned" =>
        \A c \in Counters :
            /\ SumOver(metrics.department_calls, DeptKeys, c) = metrics[c]
            /\ SumOver(metrics.user_calls, UserKeys, c) = metrics[c]

\* C15: a row adds to total_duration the integer its Duration field spells
\* when the field is all decimal digits and 0 otherwise, and no exception
\* comes from the lines that read the field.
C15_DurationNeverRaises ==
    fed > 0 =>
        LET f == items[fed].Duration
        IN  /\ ~(lastExc.exc # "none" /\ lastExc.line \in {154, 108, 121})
            /\ metrics.total_duration - prevMetrics.total_duration
                 = IF f.kind = "str" /\ IntParses(f.chars) THEN IntOf(f.chars) ELSE 0

\* C16: a row whose other fields raise nothing appends one sample, answer
\* time minus start time in seconds, when both timestamps are present and
\* parse, and none otherwise; either way the row is counted in total_calls,
\* in call_outcomes and in its department and user buckets.
C16_SampleIffBothParse ==
    (fed > 0 /\ SoundButForTimes(items[fed])) =>
        LET item == items[fed]
            a == item.AnswerTime
            s == item.StartTime
            dept == KeyOf(item.Dept)
            user == KeyOf(item.User)
            outc == KeyOf(item.Outcome)
        IN  /\ metrics.response_times =
                 IF ParsesAsTime(a) /\ ParsesAsTime(s)
                 THEN Append(prevMetrics.response_times,
                             FromIsoFormat(a.chars).secs - FromIsoFormat(s.chars).secs)
                 ELSE prevMetrics.response_times
            /\ metrics.total_calls = prevMetrics.total_calls + 1
            /\ metrics.call_outcomes[outc] = prevMetrics.call_outcomes[outc] + 1
            /\ metrics.department_calls[dept].total_calls
                 = prevMetrics.department_calls[dept].total_calls + 1
            /\ metrics.user_calls[user].total_calls
                 = prevMetrics.user_calls[user].total_calls + 1

\* ------------------------------------------------------------ the run's end
\* C21 (as claimed): a run in which write_to_csv was called and could not
\* write the file ends with delete_report called for the run's report.
C21_CsvFailureStillDeletes ==
    (pc = "done" /\ csvArg # NotCalled /\ ~csvWritten) => CleanupInvoked

\* C22 (as claimed): the request is answered with the redirect to /complete
\* only when the run ended Completed; a run that ended Failed, QuotaExceeded
\* or NoData is answered otherwise.
C22_ResponseReflectsOutcome ==
    response # "none" =>
        /\ response = "/complete" => outcome = "Completed"
        /\ outcome \in {"Failed", "QuotaExceeded", "NoData"} => response # "/complete"

\* delete_report calls of the run that deleted a report
Deleted == {i \in 1..Len(deleteCalls) : deleteCalls[i].ok}

\* what both readings of C23 share: once line 75 has found the time up, the
\* run is over and Failed, the lines were not fetched, nothing was handed to
\* write_to_csv, and delete_report was not called for the report, which is
\* still stored
TimeoutLeavesReport ==
    /\ pc = "done"
    /\ outcome = "Failed"
    /\ linesResult = "none"
    /\ csvArg = NotCalled
    /\ report_id # 0 =>
         /\ report_id \in stored
         /\ \A i \in 1..Len(deleteCalls) : deleteCalls[i].id # report_id

\* C23 (as claimed): after the timeout the report is left as it is, and the
\* stored-report count is one higher than when the run began.
C23_TimeoutCountOneHigher ==
    (reason = "PollTimeout" /\ report_id # 0) =>
        /\ TimeoutLeavesReport
        /\ Cardinality(stored) = Cardinality(storedAtStart) + 1

\* C23 (corrected): after the timeout the run makes no further status query,
\* fetches no lines and does not delete the report, which stays stored; the
\* stored-report count is the count when the run began, less the reports
\* that handle_existing_reports deleted in this run, plus one for the report
\* if cdr_report returned an id.
C23_TimeoutAbandonsReport ==
    reason = "PollTimeout" =>
        /\ TimeoutLeavesReport
        /\ Cardinality(stored) = Cardinality(storedAtStart) - Cardinality(Deleted)
                                   + (IF report_id # 0 THEN 1 ELSE 0)

\* C23 witness: the poll of a report timed out in a run whose guard had
\* deleted a report to make room
C23_Witness ==
    /\ reason = "PollTimeout"
    /\ report_id \in stored
    /\ prompted
    /\ Cardinality(Deleted) = 1
    /\ Cardinality(stored) = Ceiling

\* the gateway calls fetch_cdr_data makes are made where pc is one of these
FetchCalls == {"create", "status", "lines"}

\* C24: when cdr_report, report_status or get_report_lines raises,
\* fetch_cdr_data returns its failure in the same step: the run is over and
\* Failed, the call was made once, no lines are kept; and from the end of the
\* run on, no creation, status query, line retrieval or deletion follows
\* until the next run starts.
C24_NoRetryAfterRaise ==
    [][ /\ (pc \in FetchCalls /\ reason' = "GatewayError") =>
              /\ pc' = "done"
              /\ outcome' = "Failed"
              /\ createCalls' = 1
              /\ statusQueries' = 0
              /\ linesResult' = "none"
              /\ deleteCalls' = deleteCalls
        /\ pc = "done" =>
              /\ pc' \in {"done", "idle"}
              /\ stored' = stored
              /\ nextId' = nextId
              /\ createCalls' \in {createCalls, 0}
              /\ Len(deleteCalls') <= Len(deleteCalls)
      ]_vars

\* C24 witness: a status query or the line retrieval raised after the report
\* was created, and the run ended there
C24_Witness ==
    /\ pc = "done"
    /\ reason = "GatewayError"
    /\ createCalls = 1
    /\ report_id \in stored
    /\ linesResult = "none"
    /\ csvArg = NotCalled

\* delete_report calls of the run made for the report the run created
CleanupCalls == {i \in 1..Len(deleteCalls) : report_id # 0 /\ deleteCalls[i].id = report_id}

\* C25, at every moment of a run: cdr_report was called at most once; every
\* status query of the poll carried the id that call returned; the time
\* waited is 30 units per sleep and every query had a sleep of its own before
\* it; delete_report was called at most once for the run's report.
OnePollPerRun ==
    /\ createCalls <= 1
    /\ queriedIds \subseteq {report_id}
    /\ elapsed = sleeps * SleepInterval
    /\ pc = "poll" => sleeps = statusQueries
    /\ pc = "status" => sleeps = statusQueries + 1
    /\ Cardinality(CleanupCalls) <= 1

\* C25, step by step: the creation request is made once and starts the one
\* poll sequence; a status query is answered only after the sleep before it;
\* the cleanup step calls delete_report once, with the id of the run's report.
OnePollPerRunStep ==
    /\ createCalls' > createCalls =>
          (createCalls = 0 /\ pc = "create" /\ pc' \in {"poll", "done"})
    /\ (pc' = "poll" /\ pc # "status") => (pc = "create" /\ createCalls' = 1)
    /\ statusQueries' > statusQueries =>
          (pc = "status" /\ sleeps = statusQueries + 1 /\ report_id \in queriedIds')
    /\ pc = "delete_report" =>
          /\ Len(deleteCalls') = Len(deleteCalls) + 1
          /\ deleteCalls'[Len(deleteCalls')].id = report_id
          /\ pc' = "done"
    /\ (Len(deleteCalls') > Len(deleteCalls) /\ createCalls > 0) => pc = "delete_report"

\* C25: one run issues at most one creation request and runs at most one
\* poll sequence, whose status queries all carry the id the creation
\* returned, each after a 30-unit sleep; the cleanup deletes that id only, at
\* most once.
C25_OneCreationOnePoll == []OnePollPerRun /\ [][OnePollPerRunStep]_vars

\* C25 witness: the guard deleted a stored report, the run created and polled
\* one report and its cleanup deleted that one
C25_Witness ==
    /\ pc = "done"
    /\ createCalls = 1
    /\ Len(deleteCalls) = 2
    /\ deleteCalls[1].id # report_id
    /\ deleteCalls[2] = [id |-> report_id, ok |-> TRUE]
    /\ report_id \notin stored

\* what holds when the prompt's remediation freed nothing: the store is as
\* the run found it, no report is created, handle_existing_reports does not
\* return true, and when it returns it has read the count again and returns
\* false, which ends the run
NothingFreed ==
    /\ stored = storedAtStart
    /\ Cardinality(stored) = Ceiling
    /\ createCalls = 0
    /\ pc \in {"recount", "done"}
    /\ guardResult # "true"
    /\ guardResult = "false" =>
          /\ listCalls = 2
          /\ num_existing_reports = Ceiling
          /\ pc = "done"
          /\ outcome = "QuotaExceeded"

\* C26: at the ceiling, an input other than 1, 2 and 3 makes
\* handle_existing_reports delete nothing, read the count again and return
\* false, and the run ends with no report created; so does option 1 with an
\* id whose deletion fails.
C26_NoRemediationNoCreation ==
    /\ (prompted /\ delete_option = "x") => (deleteCalls = <<>> /\ NothingFreed)
    /\ (prompted /\ delete_option = "1" /\ Len(deleteCalls) > 0 /\ ~deleteCalls[1].ok) =>
          (Len(deleteCalls) = 1 /\ NothingFreed)

\* C26 witness: the operator typed something else at the prompt and
\* handle_existing_reports returned false
C26_Witness ==
    /\ prompted
    /\ delete_option = "x"
    /\ guardResult = "false"
    /\ listCalls = 2
    /\ outcome = "QuotaExceeded"

====
